---- MODULE Spec2Model ----
(***************************************************************************)
(* A model of the chunked extraction and graph-merging pipeline of the     *)
(* financial-detective repository: the graph merger (src/graph_merger.py)  *)
(* and the chunked-extraction orchestrator (src/extractor/__init__.py).    *)
(*                                                                         *)
(* Strings of the program that are only compared (ids, names, versions)    *)
(* are TLA+ strings.  Optional values (confidence: float | None) are       *)
(* sequences of length at most one: <<>> is None.                          *)
(***************************************************************************)
EXTENDS Integers, Sequences, FiniteSets, TLC

(***************************************************************************)
(* Bounds of the model.                                                    *)
(***************************************************************************)
\* the longest list of input graphs handed to merge_graphs
MaxGraphs == 2
\* the number of nodes in all input graphs of one merge together
MaxNodes == 3
\* the number of relationships in all input graphs of one merge together
MaxRels == 2
\* the longest text is this many repeats of a unit of text
MaxRepeats == 4
\* the largest chunk_size_tokens and chunk_overlap_tokens configured
MaxChunkTokens == 2

(***************************************************************************)
(* src/schema.py: Node, Relationship, KnowledgeGraph.                      *)
(***************************************************************************)
NodeTypes == {"Company", "RiskFactor", "DollarAmount"}

Relations == {"OWNS", "HAS_RISK", "REPORTS_AMOUNT"}

\* Node ids as an extractor writes them: chunk-local, and free to look like
\* the ids the merger synthesizes.
RawIds == {"c1", "company_1"}

\* The (type, name) pairs of the nodes the inputs are drawn from.
NodeKeys == {<<"Company", "A">>, <<"Company", "B">>,
             <<"RiskFactor", "A">>, <<"DollarAmount", "A">>}

SchemaVersions == {"1.0.0"}

\* confidence: None, written <<>>, or a score, <<1>> for 1.0
Confidences == {<<>>, <<1>>}

Node(id, type, name) == [id |-> id, type |-> type, name |-> name]

Relationship(source, target, relation, confidence) ==
    [source |-> source, target |-> target, relation |-> relation,
     confidence |-> confidence]

KnowledgeGraph(schema_version, nodes, relationships) ==
    [schema_version |-> schema_version, nodes |-> nodes,
     relationships |-> relationships]

InputNodes == {Node(id, k[1], k[2]) : id \in RawIds, k \in NodeKeys}

InputRels == {Relationship(s, t, r, c) :
                 s \in RawIds, t \in RawIds, r \in Relations, c \in Confidences}

(***************************************************************************)
(* src/graph_merger.py                                                     *)
(***************************************************************************)
\* dict.get(key, default)
Get(map, key, default) == IF key \in DOMAIN map THEN map[key] ELSE default

\* map[key] = value
Put(map, key, value) == (key :> value) @@ map

\* The empty dict.
EmptyMap == [k \in {} |-> 0]

_get_type_prefix(node_type) ==
    CASE node_type = "Company" -> "company"
      [] node_type = "RiskFactor" -> "risk"
      [] node_type = "DollarAmount" -> "amount"

\* f"{type_prefix}_{type_counters[node.type]}"
new_id(type_prefix, counter) == type_prefix \o "_" \o ToString(counter)

\* The state of merge_graphs before its first pass.
MergeInit ==
    [node_key_to_id |-> EmptyMap,
     unique_nodes |-> <<>>,
     id_mapping |-> EmptyMap,
     type_counters |-> [t \in NodeTypes |-> 0]]

\* MergeNode, were the counter of the type moved on by a node met again
\* too.
MergeNode_CountsEveryNode(st, chunk_idx, node) ==
    LET node_key == <<node.type, node.name>>
        counter == st.type_counters[node.type] + 1
    IN IF node_key \in DOMAIN st.node_key_to_id
       THEN [st EXCEPT
                !.id_mapping =
                    Put(@, <<chunk_idx, node.id>>, st.node_key_to_id[node_key]),
                !.type_counters = [@ EXCEPT ![node.type] = counter]]
       ELSE LET id == new_id(_get_type_prefix(node.type), counter)
            IN [node_key_to_id |-> Put(st.node_key_to_id, node_key, id),
                unique_nodes |-> Append(st.unique_nodes,
                                        Node(id, node.type, node.name)),
                id_mapping |-> Put(st.id_mapping, <<chunk_idx, node.id>>, id),
                type_counters |->
                    [st.type_counters EXCEPT ![node.type] = counter]]

\* MergeNode, were a node met again not entered in id_mapping.
MergeNode_ForgetsDuplicate(st, chunk_idx, node) ==
    LET node_key == <<node.type, node.name>> IN
    IF node_key \in DOMAIN st.node_key_to_id
    THEN st
    ELSE LET counter == st.type_counters[node.type] + 1
             id == new_id(_get_type_prefix(node.type), counter)
         IN [node_key_to_id |-> Put(st.node_key_to_id, node_key, id),
             unique_nodes |-> Append(st.unique_nodes,
                                     Node(id, node.type, node.name)),
             id_mapping |-> Put(st.id_mapping, <<chunk_idx, node.id>>, id),
             type_counters |-> [st.type_counters EXCEPT ![node.type] = counter]]

\* MergeNode, were nodes told apart by name alone.
MergeNode_KeyedByName(st, chunk_idx, node) ==
    LET node_key == node.name IN
    IF node_key \in DOMAIN st.node_key_to_id
    THEN [st EXCEPT !.id_mapping =
              Put(@, <<chunk_idx, node.id>>, st.node_key_to_id[node_key])]
    ELSE LET counter == st.type_counters[node.type] + 1
             id == new_id(_get_type_prefix(node.type), counter)
         IN [node_key_to_id |-> Put(st.node_key_to_id, node_key, id),
             unique_nodes |-> Append(st.unique_nodes,
                                     Node(id, node.type, node.name)),
             id_mapping |-> Put(st.id_mapping, <<chunk_idx, node.id>>, id),
             type_counters |-> [st.type_counters EXCEPT ![node.type] = counter]]

\* MergeNode, were there one counter for all node types.
MergeNode_OneCounter(st, chunk_idx, node) ==
    LET node_key == <<node.type, node.name>> IN
    IF node_key \in DOMAIN st.node_key_to_id
    THEN [st EXCEPT !.id_mapping =
              Put(@, <<chunk_idx, node.id>>, st.node_key_to_id[node_key])]
    ELSE LET counter == Len(st.unique_nodes) + 1
             id == new_id(_get_type_prefix(node.type), counter)
         IN [node_key_to_id |-> Put(st.node_key_to_id, node_key, id),
             unique_nodes |-> Append(st.unique_nodes,
                                     Node(id, node.type, node.name)),
             id_mapping |-> Put(st.id_mapping, <<chunk_idx, node.id>>, id),
             type_counters |-> [st.type_counters EXCEPT ![node.type] = counter]]

\* One iteration of the inner loop of the first pass: node of graph chunk_idx.
MergeNode(st, chunk_idx, node) ==
    LET node_key == <<node.type, node.name>> IN
    IF node_key \in DOMAIN st.node_key_to_id
    THEN [st EXCEPT !.id_mapping =
              Put(@, <<chunk_idx, node.id>>, st.node_key_to_id[node_key])]
    ELSE LET counter == st.type_counters[node.type] + 1
             id == new_id(_get_type_prefix(node.type), counter)
         IN [node_key_to_id |-> Put(st.node_key_to_id, node_key, id),
             unique_nodes |-> Append(st.unique_nodes,
                                     Node(id, node.type, node.name)),
             id_mapping |-> Put(st.id_mapping, <<chunk_idx, node.id>>, id),
             type_counters |-> [st.type_counters EXCEPT ![node.type] = counter]]

\* The inner loop of the first pass over nodes[j..] of graph chunk_idx.
RECURSIVE MergeNodesOf(_, _, _, _)
MergeNodesOf(st, chunk_idx, nodes, j) ==
    IF j > Len(nodes) THEN st
    ELSE MergeNodesOf(MergeNode(st, chunk_idx, nodes[j]), chunk_idx, nodes, j + 1)

\* The first pass over graphs[k..]; enumerate() counts chunk_idx from 0.
RECURSIVE FirstPass(_, _, _)
FirstPass(st, graphs, k) ==
    IF k > Len(graphs) THEN st
    ELSE FirstPass(MergeNodesOf(st, k - 1, graphs[k].nodes, 1), graphs, k + 1)

\* MergeRel, were the target left as the graph wrote it.
MergeRel_RawTarget(acc, id_mapping, chunk_idx, rel) ==
    LET new_source == Get(id_mapping, <<chunk_idx, rel.source>>, rel.source)
        new_target == rel.target
        rel_key == <<new_source, new_target, rel.relation>>
    IN IF rel_key \in acc.seen_relationships THEN acc
       ELSE [all_relationships |->
                 Append(acc.all_relationships,
                        Relationship(new_source, new_target, rel.relation,
                                     rel.confidence)),
             seen_relationships |-> acc.seen_relationships \cup {rel_key}]

\* MergeRel, were the confidence of a relationship met again written over
\* the one kept.
MergeRel_LastConfidence(acc, id_mapping, chunk_idx, rel) ==
    LET new_source == Get(id_mapping, <<chunk_idx, rel.source>>, rel.source)
        new_target == Get(id_mapping, <<chunk_idx, rel.target>>, rel.target)
        rel_key == <<new_source, new_target, rel.relation>>
    IN IF rel_key \in acc.seen_relationships
       THEN [acc EXCEPT !.all_relationships =
                [o \in DOMAIN @ |->
                    IF <<@[o].source, @[o].target, @[o].relation>> = rel_key
                    THEN [@[o] EXCEPT !.confidence = rel.confidence]
                    ELSE @[o]]]
       ELSE [all_relationships |->
                 Append(acc.all_relationships,
                        Relationship(new_source, new_target, rel.relation,
                                     rel.confidence)),
             seen_relationships |-> acc.seen_relationships \cup {rel_key}]

\* MergeRel, were a relationship met again appended all the same.
MergeRel_KeepsRepeats(acc, id_mapping, chunk_idx, rel) ==
    LET new_source == Get(id_mapping, <<chunk_idx, rel.source>>, rel.source)
        new_target == Get(id_mapping, <<chunk_idx, rel.target>>, rel.target)
        rel_key == <<new_source, new_target, rel.relation>>
    IN [all_relationships |->
            Append(acc.all_relationships,
                   Relationship(new_source, new_target, rel.relation,
                                rel.confidence)),
        seen_relationships |-> acc.seen_relationships \cup {rel_key}]

\* MergeRel, were an id unknown in its own graph looked up in the first one.
MergeRel_OtherChunk(acc, id_mapping, chunk_idx, rel) ==
    LET new_source == Get(id_mapping, <<chunk_idx, rel.source>>,
                          Get(id_mapping, <<0, rel.source>>, rel.source))
        new_target == Get(id_mapping, <<chunk_idx, rel.target>>,
                          Get(id_mapping, <<0, rel.target>>, rel.target))
        rel_key == <<new_source, new_target, rel.relation>>
    IN IF rel_key \in acc.seen_relationships THEN acc
       ELSE [all_relationships |->
                 Append(acc.all_relationships,
                        Relationship(new_source, new_target, rel.relation,
                                     rel.confidence)),
             seen_relationships |-> acc.seen_relationships \cup {rel_key}]

\* One iteration of the inner loop of the second pass; acc is
\* [all_relationships, seen_relationships].
MergeRel(acc, id_mapping, chunk_idx, rel) ==
    LET new_source == Get(id_mapping, <<chunk_idx, rel.source>>, rel.source)
        new_target == Get(id_mapping, <<chunk_idx, rel.target>>, rel.target)
        rel_key == <<new_source, new_target, rel.relation>>
    IN IF rel_key \in acc.seen_relationships THEN acc
       ELSE [all_relationships |->
                 Append(acc.all_relationships,
                        Relationship(new_source, new_target, rel.relation,
                                     rel.confidence)),
             seen_relationships |-> acc.seen_relationships \cup {rel_key}]

RECURSIVE MergeRelsOf(_, _, _, _, _)
MergeRelsOf(acc, id_mapping, chunk_idx, rels, j) ==
    IF j > Len(rels) THEN acc
    ELSE MergeRelsOf(MergeRel(acc, id_mapping, chunk_idx, rels[j]),
                     id_mapping, chunk_idx, rels, j + 1)

RECURSIVE SecondPass(_, _, _, _)
SecondPass(acc, id_mapping, graphs, k) ==
    IF k > Len(graphs) THEN acc
    ELSE SecondPass(MergeRelsOf(acc, id_mapping, k - 1,
                                graphs[k].relationships, 1),
                    id_mapping, graphs, k + 1)

\* A call that returned value.
Returned(value) == [kind |-> "return", value |-> value]

\* A call that raised exc(msg).
Raised(exc, msg) == [kind |-> "raise", exc |-> exc, msg |-> msg]

\* The two passes, for two or more graphs.
MergeMany(graphs) ==
    LET st == FirstPass(MergeInit, graphs, 1)
        acc == SecondPass([all_relationships |-> <<>>,
                           seen_relationships |-> {}],
                          st.id_mapping, graphs, 1)
    IN KnowledgeGraph(graphs[1].schema_version, st.unique_nodes,
                      acc.all_relationships)

\* SingleGraph, were a single input renumbered like any other.
SingleGraph_Renumbered(graphs) == MergeMany(graphs)

\* len(graphs) == 1: the single input passes through.
SingleGraph(graphs) == graphs[1]

\* merge_graphs, were the empty list merged into an empty graph.
merge_graphs_EmptyMerged(graphs) ==
    IF Len(graphs) = 0 THEN Returned(KnowledgeGraph("1.0.0", <<>>, <<>>))
    ELSE IF Len(graphs) = 1 THEN Returned(SingleGraph(graphs))
    ELSE Returned(MergeMany(graphs))

merge_graphs(graphs) ==
    IF Len(graphs) = 0
    THEN Raised("ValueError", "Cannot merge empty list of graphs")
    ELSE IF Len(graphs) = 1 THEN Returned(SingleGraph(graphs))
    ELSE Returned(MergeMany(graphs))

(***************************************************************************)
(* src/chunker.py.  A text is a sequence of characters.                    *)
(***************************************************************************)
\* 1 token is 4 characters
CharsPerToken == 4

\* chunk[:100]
ProbeLen == 100

\* len(word_matches) > 10
MinWordBreaks == 10

\* \s, and what str.strip() strips
IsSpace(c) == c \in {" ", "\n", "\t"}

IsNewline(c) == c = "\n"

\* [.!?]
IsSentenceEnd(c) == c \in {".", "!", "?"}

estimate_tokens(text) == Len(text) \div CharsPerToken

\* text[a:b], for 0 <= a and b <= len(text)
Slice(text, a, b) == SubSeq(text, a + 1, b)

\* text[:n]
Prefix(text, n) == SubSeq(text, 1, IF n < Len(text) THEN n ELSE Len(text))

NonSpaces(text) == {i \in 1..Len(text) : ~IsSpace(text[i])}

\* text.rstrip()
rstrip(text) ==
    IF NonSpaces(text) = {} THEN <<>>
    ELSE SubSeq(text, 1, CHOOSE i \in NonSpaces(text) :
                             \A j \in NonSpaces(text) : j <= i)

\* text.strip()
strip(text) ==
    IF NonSpaces(text) = {} THEN <<>>
    ELSE SubSeq(text,
                CHOOSE i \in NonSpaces(text) : \A j \in NonSpaces(text) : i <= j,
                CHOOSE i \in NonSpaces(text) : \A j \in NonSpaces(text) : j <= i)

\* haystack.find(needle): the least index needle stands at, -1 if none
find(haystack, needle) ==
    LET at == {i \in 0..(Len(haystack) - Len(needle)) :
                   Slice(haystack, i, i + Len(needle)) = needle}
    IN IF at = {} THEN -1 ELSE CHOOSE i \in at : \A j \in at : i <= j

\* Where the longest run of characters satisfying Is that starts at text[p]
\* ends: a greedy + of a regular expression.
RunEnd(text, p, Is(_)) ==
    CHOOSE q \in p..Len(text) :
        /\ \A i \in p..q : Is(text[i])
        /\ q = Len(text) \/ ~Is(text[q + 1])

\* m.end() of the matches of re.finditer(r'\n\n+', text)
ParagraphBreaks(text) ==
    {RunEnd(text, p, IsNewline) :
        p \in {p \in 1..(Len(text) - 1) :
                  /\ IsNewline(text[p]) /\ IsNewline(text[p + 1])
                  /\ p = 1 \/ ~IsNewline(text[p - 1])}}

\* m.end() of the matches of re.finditer(r'[.!?]\s+', text)
SentenceBreaks(text) ==
    {RunEnd(text, p + 1, IsSpace) :
        p \in {p \in 1..(Len(text) - 1) :
                  IsSentenceEnd(text[p]) /\ IsSpace(text[p + 1])}}

\* m.end() of the matches of re.finditer(r'\s+', text)
WordBreaks(text) ==
    {RunEnd(text, p, IsSpace) :
        p \in {p \in 1..Len(text) :
                  IsSpace(text[p]) /\ (p = 1 \/ ~IsSpace(text[p - 1]))}}

\* matches[k] of the matches in text order, k from 0; matches[-1] is
\* Nth(ends, Cardinality(ends) - 1)
Nth(ends, k) == CHOOSE e \in ends : Cardinality({d \in ends : d < e}) = k

_split_at_boundary(text) ==
    LET paragraph_matches == ParagraphBreaks(text)
        sentence_matches == SentenceBreaks(text)
        word_matches == WordBreaks(text)
    IN IF paragraph_matches # {}
       THEN rstrip(Prefix(text, Nth(paragraph_matches,
                                    Cardinality(paragraph_matches) - 1)))
       ELSE IF sentence_matches # {}
       THEN rstrip(Prefix(text,
                IF Cardinality(sentence_matches) >= 2
                THEN Nth(sentence_matches, Cardinality(sentence_matches) - 2)
                ELSE Nth(sentence_matches, Cardinality(sentence_matches) - 1)))
       ELSE IF word_matches # {} /\ Cardinality(word_matches) > MinWordBreaks
       THEN rstrip(Prefix(text, Nth(word_matches,
                                    (Cardinality(word_matches) * 8) \div 10)))
       ELSE text

\* SplitStep, were the chunk appended as it was cut, not stripped.
SplitStep_Unstripped(text, chunk_chars, overlap_chars, current_pos) ==
    LET sum == current_pos + chunk_chars
        end_pos == IF sum < Len(text) THEN sum ELSE Len(text)
        window == Slice(text, current_pos, end_pos)
        chunk == IF end_pos < Len(text) THEN _split_at_boundary(window)
                 ELSE window
        back == end_pos - overlap_chars
    IN [chunk |-> chunk,
        last |-> ~(end_pos < Len(text)),
        current_pos |->
            IF end_pos < Len(text)
            THEN IF back <= find(chunk, Prefix(chunk, ProbeLen))
                 THEN end_pos ELSE back
            ELSE current_pos]

\* SplitStep, were the overlap taken back from the end of the chunk as
\* trimmed at its boundary.
SplitStep_BacksFromChunk(text, chunk_chars, overlap_chars, current_pos) ==
    LET sum == current_pos + chunk_chars
        end_pos == IF sum < Len(text) THEN sum ELSE Len(text)
        window == Slice(text, current_pos, end_pos)
        chunk == IF end_pos < Len(text) THEN _split_at_boundary(window)
                 ELSE window
        back == current_pos + Len(chunk) - overlap_chars
    IN [chunk |-> strip(chunk),
        last |-> ~(end_pos < Len(text)),
        current_pos |->
            IF end_pos < Len(text)
            THEN IF back <= find(strip(chunk), Prefix(chunk, ProbeLen))
                 THEN end_pos ELSE back
            ELSE current_pos]

\* One iteration of the loop of split_text at current_pos: the chunk it
\* appends and the position it goes on from (len(text) when it breaks).
SplitStep(text, chunk_chars, overlap_chars, current_pos) ==
    LET sum == current_pos + chunk_chars
        end_pos == IF sum < Len(text) THEN sum ELSE Len(text)
        window == Slice(text, current_pos, end_pos)
        chunk == IF end_pos < Len(text) THEN _split_at_boundary(window)
                 ELSE window
        back == end_pos - overlap_chars
    IN [chunk |-> strip(chunk),
        last |-> ~(end_pos < Len(text)),
        current_pos |->
            IF end_pos < Len(text)
            THEN IF back <= find(strip(chunk), Prefix(chunk, ProbeLen))
                 THEN end_pos ELSE back
            ELSE current_pos]

\* while current_pos < len(text): ...
RECURSIVE SplitLoop(_, _, _, _, _)
SplitLoop(text, chunk_chars, overlap_chars, current_pos, chunks) ==
    IF ~(current_pos < Len(text)) THEN chunks
    ELSE LET step == SplitStep(text, chunk_chars, overlap_chars, current_pos)
         IN IF step.last THEN Append(chunks, step.chunk)
            ELSE SplitLoop(text, chunk_chars, overlap_chars,
                           step.current_pos, Append(chunks, step.chunk))

split_text(text, chunk_size, overlap) ==
    IF chunk_size <= 0 THEN Raised("ValueError", "chunk_size must be positive")
    ELSE IF overlap < 0
    THEN Raised("ValueError", "overlap must be non-negative")
    ELSE IF overlap >= chunk_size
    THEN Raised("ValueError", "overlap must be less than chunk_size")
    ELSE IF strip(text) = <<>> THEN Returned(<<>>)
    ELSE IF estimate_tokens(text) <= chunk_size THEN Returned(<<text>>)
    ELSE Returned(SplitLoop(text, chunk_size * CharsPerToken,
                            overlap * CharsPerToken, 0, <<>>))

\* SplitEntry, were a text that fits returned stripped.
SplitEntry_FitsStripped(text, chunk_size, overlap) ==
    IF chunk_size <= 0 THEN Raised("ValueError", "chunk_size must be positive")
    ELSE IF overlap < 0
    THEN Raised("ValueError", "overlap must be non-negative")
    ELSE IF overlap >= chunk_size
    THEN Raised("ValueError", "overlap must be less than chunk_size")
    ELSE IF strip(text) = <<>> THEN Returned(<<>>)
    ELSE IF estimate_tokens(text) <= chunk_size THEN Returned(<<strip(text)>>)
    ELSE [kind |-> "loop"]

\* SplitEntry, were a blank text answered before the arguments are looked
\* at.
SplitEntry_BlankFirst(text, chunk_size, overlap) ==
    IF strip(text) = <<>> THEN Returned(<<>>)
    ELSE IF chunk_size <= 0
    THEN Raised("ValueError", "chunk_size must be positive")
    ELSE IF overlap < 0
    THEN Raised("ValueError", "overlap must be non-negative")
    ELSE IF overlap >= chunk_size
    THEN Raised("ValueError", "overlap must be less than chunk_size")
    ELSE IF estimate_tokens(text) <= chunk_size THEN Returned(<<text>>)
    ELSE [kind |-> "loop"]

\* Lines 56-75 of split_text: what the call ends with before its loop, or
\* that it enters the loop.
SplitEntry(text, chunk_size, overlap) ==
    IF chunk_size <= 0 THEN Raised("ValueError", "chunk_size must be positive")
    ELSE IF overlap < 0
    THEN Raised("ValueError", "overlap must be non-negative")
    ELSE IF overlap >= chunk_size
    THEN Raised("ValueError", "overlap must be less than chunk_size")
    ELSE IF strip(text) = <<>> THEN Returned(<<>>)
    ELSE IF estimate_tokens(text) <= chunk_size THEN Returned(<<text>>)
    ELSE [kind |-> "loop"]

(***************************************************************************)
(* src/validator.py                                                        *)
(***************************************************************************)
\* {node.id: node for node in graph.nodes}, from nodes[j] on.
RECURSIVE NodeMap(_, _, _)
NodeMap(map, nodes, j) ==
    IF j > Len(nodes) THEN map
    ELSE NodeMap(Put(map, nodes[j].id, nodes[j]), nodes, j + 1)

\* RepairRel, were only the target of an OWNS looked at.
RepairRel_OwnsTargetOnly(valid_relationships, node_map, rel) ==
    IF rel.source \notin DOMAIN node_map \/ rel.target \notin DOMAIN node_map
    THEN valid_relationships
    ELSE LET source_type == node_map[rel.source].type
             target_type == node_map[rel.target].type
             is_valid ==
                 IF rel.relation = "HAS_RISK" THEN target_type = "RiskFactor"
                 ELSE IF rel.relation = "REPORTS_AMOUNT"
                 THEN target_type = "DollarAmount"
                 ELSE IF rel.relation = "OWNS" THEN target_type = "Company"
                 ELSE TRUE
         IN IF is_valid THEN Append(valid_relationships, rel)
            ELSE valid_relationships

\* One iteration of the loop of lines 64-92 of validate_and_repair_graph.
RepairRel(valid_relationships, node_map, rel) ==
    IF rel.source \notin DOMAIN node_map \/ rel.target \notin DOMAIN node_map
    THEN valid_relationships
    ELSE LET source_type == node_map[rel.source].type
             target_type == node_map[rel.target].type
             is_valid ==
                 IF rel.relation = "HAS_RISK" THEN target_type = "RiskFactor"
                 ELSE IF rel.relation = "REPORTS_AMOUNT"
                 THEN target_type = "DollarAmount"
                 ELSE IF rel.relation = "OWNS"
                 THEN ~(source_type # "Company" \/ target_type # "Company")
                 ELSE TRUE
         IN IF is_valid THEN Append(valid_relationships, rel)
            ELSE valid_relationships

\* The loop of lines 64-92 from relationships[j] on.
RECURSIVE RepairRels(_, _, _, _)
RepairRels(valid_relationships, node_map, relationships, j) ==
    IF j > Len(relationships) THEN valid_relationships
    ELSE RepairRels(RepairRel(valid_relationships, node_map, relationships[j]),
                    node_map, relationships, j + 1)

EmptyGraph ==
    Raised("ValueError", "KnowledgeGraph must contain at least one node")

validate_and_repair_graph(graph) ==
    IF graph.nodes = <<>> THEN EmptyGraph
    ELSE LET node_map == NodeMap(EmptyMap, graph.nodes, 1)
         IN Returned(KnowledgeGraph(graph.schema_version, graph.nodes,
                                    RepairRels(<<>>, node_map,
                                               graph.relationships, 1)))

\* The ids _validate_unique_node_ids collects in duplicates, from nodes[j]
\* on: the id of every node that an earlier node shares its id with.
RECURSIVE Duplicates(_, _, _, _)
Duplicates(seen_ids, duplicates, nodes, j) ==
    IF j > Len(nodes) THEN duplicates
    ELSE Duplicates(seen_ids \cup {nodes[j].id},
                    IF nodes[j].id \in seen_ids
                    THEN Append(duplicates, nodes[j].id) ELSE duplicates,
                    nodes, j + 1)

\* _validate_unique_node_ids, were a node compared with the one before it
\* only.
_validate_unique_node_ids_Adjacent(graph) ==
    LET duplicates ==
            SelectSeq([j \in 1..Len(graph.nodes) |->
                           IF j > 1 /\ graph.nodes[j].id = graph.nodes[j - 1].id
                           THEN graph.nodes[j].id ELSE ""],
                      LAMBDA id : id # "")
    IN IF duplicates # <<>>
       THEN Raised("ValueError", <<"Duplicate node IDs found: ", duplicates>>)
       ELSE Returned("None")

_validate_unique_node_ids(graph) ==
    LET duplicates == Duplicates({}, <<>>, graph.nodes, 1)
    IN IF duplicates # <<>>
       THEN Raised("ValueError", <<"Duplicate node IDs found: ", duplicates>>)
       ELSE Returned("None")

\* The endpoints _validate_relationship_references collects in
\* invalid_references, from relationships[j] on.
RECURSIVE InvalidReferences(_, _, _, _)
InvalidReferences(node_ids, invalid_references, relationships, j) ==
    IF j > Len(relationships) THEN invalid_references
    ELSE LET rel == relationships[j]
             with_source == IF rel.source \notin node_ids
                            THEN Append(invalid_references,
                                        <<"source", rel.source, rel>>)
                            ELSE invalid_references
             with_target == IF rel.target \notin node_ids
                            THEN Append(with_source,
                                        <<"target", rel.target, rel>>)
                            ELSE with_source
         IN InvalidReferences(node_ids, with_target, relationships, j + 1)

_validate_relationship_references(graph) ==
    LET node_ids == {graph.nodes[j].id : j \in 1..Len(graph.nodes)}
        invalid_references ==
            InvalidReferences(node_ids, <<>>, graph.relationships, 1)
    IN IF invalid_references # <<>>
       THEN Raised("ValueError",
                   <<"Invalid node references in relationships: ",
                     invalid_references>>)
       ELSE Returned("None")

validate_knowledge_graph(graph) ==
    IF graph.nodes = <<>> THEN EmptyGraph
    ELSE IF _validate_unique_node_ids(graph).kind = "raise"
    THEN _validate_unique_node_ids(graph)
    ELSE _validate_relationship_references(graph)

(***************************************************************************)
(* State.                                                                  *)
(*                                                                         *)
(* m_graphs and m_result are the argument and the outcome of one call of   *)
(* merge_graphs.                                                           *)
(*                                                                         *)
(* The rest is one call of extract_knowledge_graph: its arguments text and *)
(* on_chunk_complete ("None" or "callback"), the configuration load_config *)
(* returns, its locals, the place pc it has reached, the arm branch of     *)
(* the test of line 67 it took, and its outcome result.  What it did to    *)
(* its collaborators is on record: extract_calls are the texts handed to   *)
(* extractor.extract, extract_results what each call came back with,       *)
(* callback_calls the arguments of each call of on_chunk_complete.         *)
(*                                                                         *)
(* split_call is one call of split_text: its arguments, its locals         *)
(* current_pos and chunks, the place pc it has reached and its outcome;    *)
(* starts is the value of current_pos at which each chunk was cut.         *)
(* validator_call is one graph handed to the validator, and the outcomes   *)
(* of validate_and_repair_graph and validate_knowledge_graph on it.        *)
(* surfaced is the outcome of main's validate_and_repair_graph on the      *)
(* graph extract_knowledge_graph returned.                                 *)
(***************************************************************************)
VARIABLES m_graphs, m_result,
          text, on_chunk_complete, config, pc, branch, chunks, i, graphs,
          failed_chunks, total_nodes, total_relationships,
          extract_calls, extract_results, callback_calls, result,
          split_call, validator_call, surfaced

merge_vars == <<m_graphs, m_result>>

extract_vars == <<text, on_chunk_complete, config, pc, branch, chunks, i,
                  graphs, failed_chunks, total_nodes, total_relationships,
                  extract_calls, extract_results, callback_calls, result>>

\* One call of split_text, one graph under the validator, and what main
\* surfaces.
side_vars == <<split_call, validator_call, surfaced>>

vars == <<merge_vars, extract_vars, side_vars>>

NotCalled == [kind |-> "none"]

\* split_text, the validator and main before they are called on anything.
IdleSide ==
    /\ split_call = [text |-> <<>>, chunk_size |-> 1, overlap |-> 0,
                     current_pos |-> 0, starts |-> <<>>, chunks |-> <<>>,
                     pc |-> "idle", result |-> NotCalled]
    /\ validator_call = [graph |-> KnowledgeGraph("1.0.0", <<>>, <<>>),
                         repair |-> NotCalled, validate |-> NotCalled]
    /\ surfaced = NotCalled

\* extract_knowledge_graph before it is called on anything.
Idle ==
    /\ text = <<>>
    /\ on_chunk_complete = "None"
    /\ config = [chunk_enabled |-> FALSE, chunk_size_tokens |-> 1,
                 chunk_overlap_tokens |-> 0]
    /\ pc = "idle"
    /\ branch = "none"
    /\ chunks = <<>>
    /\ i = 0
    /\ graphs = <<>>
    /\ failed_chunks = <<>>
    /\ total_nodes = 0
    /\ total_relationships = 0
    /\ extract_calls = <<>>
    /\ extract_results = <<>>
    /\ callback_calls = <<>>
    /\ result = NotCalled

\* Concatenation of f(g) over the graphs.
RECURSIVE Flat(_, _)
Flat(seqs, k) == IF k > Len(seqs) THEN <<>> ELSE seqs[k] \o Flat(seqs, k + 1)

AllNodes(gs) == Flat([k \in 1..Len(gs) |-> gs[k].nodes], 1)

AllRels(gs) == Flat([k \in 1..Len(gs) |-> gs[k].relationships], 1)

(***************************************************************************)
(* The merger on its own: the caller builds a list of graphs, one graph,   *)
(* node and relationship at a time, and calls merge_graphs on it.          *)
(***************************************************************************)
InitMerge ==
    /\ m_graphs = <<>>
    /\ m_result = NotCalled
    /\ Idle
    /\ IdleSide

NewGraph ==
    /\ m_result = NotCalled
    /\ Len(m_graphs) < MaxGraphs
    /\ \E v \in SchemaVersions :
           m_graphs' = Append(m_graphs, KnowledgeGraph(v, <<>>, <<>>))
    /\ UNCHANGED <<m_result, extract_vars, side_vars>>

NewNode ==
    /\ m_result = NotCalled
    /\ Len(m_graphs) > 0
    /\ Len(AllNodes(m_graphs)) < MaxNodes
    /\ \E n \in InputNodes :
           m_graphs' = [m_graphs EXCEPT ![Len(m_graphs)].nodes = Append(@, n)]
    /\ UNCHANGED <<m_result, extract_vars, side_vars>>

NewRel ==
    /\ m_result = NotCalled
    /\ Len(m_graphs) > 0
    /\ Len(AllRels(m_graphs)) < MaxRels
    /\ \E r \in InputRels :
           m_graphs' = [m_graphs EXCEPT
                           ![Len(m_graphs)].relationships = Append(@, r)]
    /\ UNCHANGED <<m_result, extract_vars, side_vars>>

CallMerge ==
    /\ m_result = NotCalled
    /\ m_result' = merge_graphs(m_graphs)
    /\ UNCHANGED <<m_graphs, extract_vars, side_vars>>

NextMerge == NewGraph \/ NewNode \/ NewRel \/ CallMerge

SpecMerge == InitMerge /\ [][NextMerge]_vars

(***************************************************************************)
(* src/extractor/__init__.py: extract_knowledge_graph.                     *)
(***************************************************************************)
\* The graphs an extractor answers with.  Pydantic checks their shape only:
\* node ids may repeat, a relationship may name no node and may repeat.
ExtractorGraphs ==
    {KnowledgeGraph("1.0.0", <<Node("c1", "Company", "A")>>,
                    <<Relationship("c1", "c1", "OWNS", <<>>)>>),
     KnowledgeGraph("1.0.0",
                    <<Node("c1", "Company", "B"),
                      Node("company_1", "RiskFactor", "A")>>,
                    <<Relationship("c1", "company_1", "HAS_RISK", <<>>)>>),
     KnowledgeGraph("1.0.0",
                    <<Node("c1", "Company", "A"), Node("c1", "Company", "B")>>,
                    <<Relationship("c1", "company_1", "OWNS", <<>>),
                      Relationship("c1", "company_1", "OWNS", <<>>)>>),
     KnowledgeGraph("1.0.0", <<>>, <<>>)}

\* Any exception of extractor.extract or of on_chunk_complete.
Failure == Raised("Exception", "failed")

\* unit * n
RECURSIVE Repeat(_, _)
Repeat(unit, n) == IF n = 0 THEN <<>> ELSE unit \o Repeat(unit, n - 1)

\* The units the texts are made of: a sentence, a paragraph, a word,
\* blanks.
TextUnits == {<<"a", "a", ".", " ">>, <<"a", "\n", "\n", "a">>,
              <<"a", "a", "a", "a">>, <<" ", " ", " ", " ">>}

Texts == {Repeat(unit, n) : unit \in TextUnits, n \in 0..MaxRepeats}

\* What load_config returns: chunk_size_tokens > 0, chunk_overlap_tokens >= 0.
Configs ==
    [chunk_enabled : BOOLEAN,
     chunk_size_tokens : 1..MaxChunkTokens,
     chunk_overlap_tokens : 0..MaxChunkTokens]

\* What load_config reads from the environment and hands to Config(...).
Settings ==
    [chunk_enabled : BOOLEAN,
     chunk_size_tokens : 0..MaxChunkTokens,
     chunk_overlap_tokens : (-1)..MaxChunkTokens]

\* Config(...): pydantic checks chunk_size_tokens > 0 (gt=0) and
\* chunk_overlap_tokens >= 0 (ge=0); its ValidationError is a ValueError.
Config(values) ==
    IF values.chunk_size_tokens > 0 /\ values.chunk_overlap_tokens >= 0
    THEN Returned(values)
    ELSE Raised("ValidationError", "validation error for Config")

\* Line 63 returned a configuration.
Loaded == Config(config).kind = "return"

\* f"All {total_chunks} chunks failed to extract. ..."
AllChunksFailed(total_chunks) ==
    Raised("ValueError",
           "All " \o ToString(total_chunks) \o " chunks failed to extract. "
               \o "Check LLM connection and prompt compatibility.")

\* Accumulate, were the new graph to take the place of the earlier ones.
Accumulate_Overwrites(acc, graph) == <<graph>>

\* graphs.append(graph)
Accumulate(acc, graph) == Append(acc, graph)

\* Conclude, were the graph of the last chunk that succeeded returned, not
\* the merge.
Conclude_LastGraph(acc, total_chunks) ==
    IF acc = <<>> THEN AllChunksFailed(total_chunks)
    ELSE Returned(acc[Len(acc)])

\* Conclude, were one failed chunk enough to fail the call.
Conclude_AnyFailure(acc, total_chunks) ==
    IF Len(acc) < total_chunks THEN AllChunksFailed(total_chunks)
    ELSE merge_graphs(acc)

\* Lines 113-129: what the call ends with after the loop.
Conclude(acc, total_chunks) ==
    IF acc = <<>> THEN AllChunksFailed(total_chunks) ELSE merge_graphs(acc)

\* The test of line 67.
Chunked ==
    config.chunk_enabled /\ estimate_tokens(text) > config.chunk_size_tokens

Init ==
    /\ m_graphs = <<>>
    /\ m_result = NotCalled
    /\ text \in Texts
    /\ on_chunk_complete \in {"None", "callback"}
    /\ config \in Settings
    /\ pc = "start"
    /\ branch = "none"
    /\ chunks = <<>>
    /\ i = 0
    /\ graphs = <<>>
    /\ failed_chunks = <<>>
    /\ total_nodes = 0
    /\ total_relationships = 0
    /\ extract_calls = <<>>
    /\ extract_results = <<>>
    /\ callback_calls = <<>>
    /\ result = NotCalled
    /\ IdleSide

\* Line 63: load_config raises, and so does the call.
LoadConfigRaises ==
    /\ pc = "start"
    /\ ~Loaded
    /\ result' = Config(config)
    /\ pc' = "done"
    /\ UNCHANGED <<merge_vars, side_vars, text, on_chunk_complete, config,
                   branch, chunks, i, graphs, failed_chunks, total_nodes,
                   total_relationships, extract_calls, extract_results,
                   callback_calls>>

\* StartSingle, were the text trimmed on its way to the extractor.
StartSingle_Stripped ==
    /\ pc = "start"
    /\ Loaded
    /\ ~Chunked
    /\ branch' = "single"
    /\ extract_calls' = Append(extract_calls, strip(text))
    /\ pc' = "single"
    /\ UNCHANGED <<merge_vars, side_vars, text, on_chunk_complete, config,
                   chunks, i, graphs, failed_chunks, total_nodes,
                   total_relationships, extract_results, callback_calls, result>>

\* Lines 63-67, 131-132: the text goes to the extractor whole.
StartSingle ==
    /\ pc = "start"
    /\ Loaded
    /\ ~Chunked
    /\ branch' = "single"
    /\ extract_calls' = Append(extract_calls, text)
    /\ pc' = "single"
    /\ UNCHANGED <<merge_vars, side_vars, text, on_chunk_complete, config, chunks, i,
                   graphs, failed_chunks, total_nodes, total_relationships,
                   extract_results, callback_calls, result>>

\* Line 132: the extractor answers, and its graph is the result.
SingleReturns ==
    /\ pc = "single"
    /\ \E graph \in ExtractorGraphs :
           /\ extract_results' = Append(extract_results, Returned(graph))
           /\ result' = Returned(graph)
    /\ pc' = "done"
    /\ UNCHANGED <<merge_vars, side_vars, text, on_chunk_complete, config, branch, chunks,
                   i, graphs, failed_chunks, total_nodes, total_relationships,
                   extract_calls, callback_calls>>

\* Line 132: the extractor raises, and so does the call.
SingleRaises ==
    /\ pc = "single"
    /\ extract_results' = Append(extract_results, Failure)
    /\ result' = Failure
    /\ pc' = "done"
    /\ UNCHANGED <<merge_vars, side_vars, text, on_chunk_complete, config, branch, chunks,
                   i, graphs, failed_chunks, total_nodes, total_relationships,
                   extract_calls, callback_calls>>

\* StartBadOverlap, were a text that cannot be chunked sent to the extractor
\* whole.
StartBadOverlap_Single ==
    /\ pc = "start"
    /\ Loaded
    /\ Chunked
    /\ config.chunk_overlap_tokens >= config.chunk_size_tokens
    /\ branch' = "single"
    /\ extract_calls' = Append(extract_calls, text)
    /\ pc' = "single"
    /\ UNCHANGED <<merge_vars, side_vars, text, on_chunk_complete, config,
                   chunks, i, graphs, failed_chunks, total_nodes,
                   total_relationships, extract_results, callback_calls, result>>

\* Lines 67-72: the overlap is not less than the chunk size.
StartBadOverlap ==
    /\ pc = "start"
    /\ Loaded
    /\ Chunked
    /\ config.chunk_overlap_tokens >= config.chunk_size_tokens
    /\ branch' = "chunked"
    /\ result' = Raised("ValueError",
                        "CHUNK_OVERLAP_TOKENS must be less than CHUNK_SIZE_TOKENS")
    /\ pc' = "done"
    /\ UNCHANGED <<merge_vars, side_vars, text, on_chunk_complete, config, chunks, i,
                   graphs, failed_chunks, total_nodes, total_relationships,
                   extract_calls, extract_results, callback_calls>>

\* Lines 67-91: the text is split and the loop begins; an error of
\* split_text is the error of the call.
StartChunked ==
    /\ pc = "start"
    /\ Loaded
    /\ Chunked
    /\ ~(config.chunk_overlap_tokens >= config.chunk_size_tokens)
    /\ branch' = "chunked"
    /\ LET split == split_text(text, config.chunk_size_tokens,
                               config.chunk_overlap_tokens)
       IN IF split.kind = "return"
          THEN /\ chunks' = split.value
               /\ i' = 1
               /\ pc' = "loop"
               /\ UNCHANGED result
          ELSE /\ result' = split
               /\ pc' = "done"
               /\ UNCHANGED <<chunks, i>>
    /\ UNCHANGED <<merge_vars, side_vars, text, on_chunk_complete, config, graphs,
                   failed_chunks, total_nodes, total_relationships,
                   extract_calls, extract_results, callback_calls>>

\* Lines 91-94: the next chunk goes to the extractor.
ExtractChunk ==
    /\ pc = "loop"
    /\ i <= Len(chunks)
    /\ extract_calls' = Append(extract_calls, chunks[i])
    /\ pc' = "extract"
    /\ UNCHANGED <<merge_vars, side_vars, text, on_chunk_complete, config, branch, chunks,
                   i, graphs, failed_chunks, total_nodes, total_relationships,
                   extract_results, callback_calls, result>>

\* Lines 94-105: the extractor answers; the graph is kept and, with a
\* callback, the graphs so far are merged and handed to it.
ChunkReturns ==
    /\ pc = "extract"
    /\ \E graph \in ExtractorGraphs :
           LET acc == Accumulate(graphs, graph)
               merged_so_far == merge_graphs(acc)
           IN /\ extract_results' = Append(extract_results, Returned(graph))
              /\ total_nodes' = total_nodes + Len(graph.nodes)
              /\ total_relationships' =
                     total_relationships + Len(graph.relationships)
              /\ graphs' = acc
              /\ IF on_chunk_complete # "None" /\ acc # <<>>
                 THEN IF merged_so_far.kind = "return"
                      THEN /\ callback_calls' =
                                  Append(callback_calls,
                                         <<merged_so_far.value, i, Len(chunks)>>)
                           /\ pc' = "callback"
                           /\ UNCHANGED <<i, failed_chunks>>
                      ELSE /\ failed_chunks' = Append(failed_chunks, i)
                           /\ i' = i + 1
                           /\ pc' = "loop"
                           /\ UNCHANGED callback_calls
                 ELSE /\ i' = i + 1
                      /\ pc' = "loop"
                      /\ UNCHANGED <<callback_calls, failed_chunks>>
    /\ UNCHANGED <<merge_vars, side_vars, text, on_chunk_complete, config, branch, chunks,
                   extract_calls, result>>

\* ChunkRaises, were the loop left at the first failure.
ChunkRaises_Aborts ==
    /\ pc = "extract"
    /\ extract_results' = Append(extract_results, Failure)
    /\ failed_chunks' = Append(failed_chunks, i)
    /\ i' = Len(chunks) + 1
    /\ pc' = "loop"
    /\ UNCHANGED <<merge_vars, side_vars, text, on_chunk_complete, config, branch, chunks,
                   graphs, total_nodes, total_relationships, extract_calls,
                   callback_calls, result>>

\* ChunkRaises, were the callback told of every chunk gone through, failed
\* ones too.
ChunkRaises_Notifies ==
    /\ pc = "extract"
    /\ extract_results' = Append(extract_results, Failure)
    /\ failed_chunks' = Append(failed_chunks, i)
    /\ callback_calls' =
           IF on_chunk_complete # "None" /\ graphs # <<>>
           THEN Append(callback_calls,
                       <<merge_graphs(graphs).value, i, Len(chunks)>>)
           ELSE callback_calls
    /\ i' = i + 1
    /\ pc' = "loop"
    /\ UNCHANGED <<merge_vars, side_vars, text, on_chunk_complete, config,
                   branch, chunks, graphs, total_nodes, total_relationships,
                   extract_calls, result>>

\* Lines 94, 107-111: the extractor raises; the chunk is noted as failed.
ChunkRaises ==
    /\ pc = "extract"
    /\ extract_results' = Append(extract_results, Failure)
    /\ failed_chunks' = Append(failed_chunks, i)
    /\ i' = i + 1
    /\ pc' = "loop"
    /\ UNCHANGED <<merge_vars, side_vars, text, on_chunk_complete, config, branch, chunks,
                   graphs, total_nodes, total_relationships, extract_calls,
                   callback_calls, result>>

\* Line 105: the callback returns.
CallbackReturns ==
    /\ pc = "callback"
    /\ i' = i + 1
    /\ pc' = "loop"
    /\ UNCHANGED <<merge_vars, side_vars, text, on_chunk_complete, config, branch, chunks,
                   graphs, failed_chunks, total_nodes, total_relationships,
                   extract_calls, extract_results, callback_calls, result>>

\* CallbackRaises, were the graph of the chunk given up with the chunk.
CallbackRaises_DropsGraph ==
    /\ pc = "callback"
    /\ failed_chunks' = Append(failed_chunks, i)
    /\ graphs' = SubSeq(graphs, 1, Len(graphs) - 1)
    /\ i' = i + 1
    /\ pc' = "loop"
    /\ UNCHANGED <<merge_vars, side_vars, text, on_chunk_complete, config,
                   branch, chunks, total_nodes, total_relationships,
                   extract_calls, extract_results, callback_calls, result>>

\* Lines 105, 107-111: the callback raises inside the try; the chunk is
\* noted as failed, its graph stays in graphs.
CallbackRaises ==
    /\ pc = "callback"
    /\ failed_chunks' = Append(failed_chunks, i)
    /\ i' = i + 1
    /\ pc' = "loop"
    /\ UNCHANGED <<merge_vars, side_vars, text, on_chunk_complete, config, branch, chunks,
                   graphs, total_nodes, total_relationships, extract_calls,
                   extract_results, callback_calls, result>>

\* Lines 113-129: the loop is over.
Finish ==
    /\ pc = "loop"
    /\ ~(i <= Len(chunks))
    /\ result' = Conclude(graphs, Len(chunks))
    /\ pc' = "done"
    /\ UNCHANGED <<merge_vars, side_vars, text, on_chunk_complete, config, branch, chunks,
                   i, graphs, failed_chunks, total_nodes, total_relationships,
                   extract_calls, extract_results, callback_calls>>

\* main.py, lines 128-132: main hands the graph extract_knowledge_graph
\* returned to validate_and_repair_graph; what comes back is the graph it
\* saves and renders.
MainRepairs ==
    /\ pc = "done"
    /\ result.kind = "return"
    /\ surfaced = NotCalled
    /\ surfaced' = validate_and_repair_graph(result.value)
    /\ UNCHANGED <<merge_vars, extract_vars, split_call, validator_call>>

Next ==
    \/ LoadConfigRaises
    \/ StartSingle \/ SingleReturns \/ SingleRaises
    \/ StartBadOverlap \/ StartChunked
    \/ ExtractChunk \/ ChunkReturns \/ ChunkRaises
    \/ CallbackReturns \/ CallbackRaises
    \/ Finish
    \/ MainRepairs

Spec == Init /\ [][Next]_vars

(***************************************************************************)
(* The validator on its own: the caller builds a graph, one node and one   *)
(* relationship at a time, and calls validate_and_repair_graph and         *)
(* validate_knowledge_graph on it.                                         *)
(***************************************************************************)
\* schema_version is any string.
GraphVersions == {"1.0.0", "1.1.0"}

InitValidate ==
    /\ m_graphs = <<>>
    /\ m_result = NotCalled
    /\ Idle
    /\ split_call = [text |-> <<>>, chunk_size |-> 1, overlap |-> 0,
                     current_pos |-> 0, starts |-> <<>>, chunks |-> <<>>,
                     pc |-> "idle", result |-> NotCalled]
    /\ surfaced = NotCalled
    /\ \E v \in GraphVersions :
           validator_call = [graph |-> KnowledgeGraph(v, <<>>, <<>>),
                             repair |-> NotCalled, validate |-> NotCalled]

GraphNode ==
    /\ validator_call.repair = NotCalled
    /\ validator_call.validate = NotCalled
    /\ Len(validator_call.graph.nodes) < MaxNodes
    /\ \E n \in InputNodes :
           validator_call' = [validator_call EXCEPT !.graph.nodes = Append(@, n)]
    /\ UNCHANGED <<merge_vars, extract_vars, split_call, surfaced>>

GraphRel ==
    /\ validator_call.repair = NotCalled
    /\ validator_call.validate = NotCalled
    /\ Len(validator_call.graph.relationships) < MaxRels
    /\ \E r \in InputRels :
           validator_call' =
               [validator_call EXCEPT !.graph.relationships = Append(@, r)]
    /\ UNCHANGED <<merge_vars, extract_vars, split_call, surfaced>>

\* graph = validate_and_repair_graph(graph), the argument left as it was
CallRepair ==
    /\ validator_call.repair = NotCalled
    /\ validator_call' =
           [validator_call EXCEPT
               !.repair = validate_and_repair_graph(validator_call.graph)]
    /\ UNCHANGED <<merge_vars, extract_vars, split_call, surfaced>>

\* validate_knowledge_graph(graph)
CallValidate ==
    /\ validator_call.validate = NotCalled
    /\ validator_call' =
           [validator_call EXCEPT
               !.validate = validate_knowledge_graph(validator_call.graph)]
    /\ UNCHANGED <<merge_vars, extract_vars, split_call, surfaced>>

NextValidate == GraphNode \/ GraphRel \/ CallRepair \/ CallValidate

SpecValidate == InitValidate /\ [][NextValidate]_vars

(***************************************************************************)
(* split_text on its own, one iteration of its loop at a time.             *)
(***************************************************************************)
\* The texts of up to n units.
RECURSIVE TextsOf(_)
TextsOf(n) ==
    IF n = 0 THEN {<<>>}
    ELSE TextsOf(n - 1) \cup {unit \o rest : unit \in TextUnits,
                                             rest \in TextsOf(n - 1)}

InitSplit ==
    /\ m_graphs = <<>>
    /\ m_result = NotCalled
    /\ Idle
    /\ validator_call = [graph |-> KnowledgeGraph("1.0.0", <<>>, <<>>),
                         repair |-> NotCalled, validate |-> NotCalled]
    /\ surfaced = NotCalled
    /\ split_call = [text |-> <<>>, chunk_size |-> 1, overlap |-> 0,
                     current_pos |-> 0, starts |-> <<>>, chunks |-> <<>>,
                     pc |-> "idle", result |-> NotCalled]

\* split_text is called.  Lines 56-75: the arguments are checked, a blank
\* or a short text is answered at once, else the loop is entered at
\* position 0.
SplitEnter ==
    /\ split_call.pc = "idle"
    /\ \E called_with \in [text : TextsOf(MaxRepeats),
                            chunk_size : (-1)..MaxChunkTokens,
                            overlap : (-1)..MaxChunkTokens] :
           LET entry == SplitEntry(called_with.text, called_with.chunk_size,
                                   called_with.overlap)
           IN split_call' =
                  [text |-> called_with.text,
                   chunk_size |-> called_with.chunk_size,
                   overlap |-> called_with.overlap,
                   current_pos |-> 0,
                   starts |-> <<>>,
                   chunks |-> <<>>,
                   pc |-> IF entry.kind = "loop" THEN "loop" ELSE "done",
                   result |-> IF entry.kind = "loop" THEN NotCalled ELSE entry]
    /\ UNCHANGED <<merge_vars, extract_vars, validator_call, surfaced>>

\* Lines 77-100: the test of the while and one pass through its body.
SplitIterate ==
    /\ split_call.pc = "loop"
    /\ LET step == SplitStep(split_call.text,
                             split_call.chunk_size * CharsPerToken,
                             split_call.overlap * CharsPerToken,
                             split_call.current_pos)
       IN split_call' =
              IF ~(split_call.current_pos < Len(split_call.text))
              THEN [split_call EXCEPT !.pc = "done",
                                      !.result = Returned(split_call.chunks)]
              ELSE IF step.last
              THEN [split_call EXCEPT
                       !.starts = Append(@, split_call.current_pos),
                       !.chunks = Append(@, step.chunk),
                       !.pc = "done",
                       !.result = Returned(Append(split_call.chunks,
                                                  step.chunk))]
              ELSE [split_call EXCEPT
                       !.starts = Append(@, split_call.current_pos),
                       !.chunks = Append(@, step.chunk),
                       !.current_pos = step.current_pos]
    /\ UNCHANGED <<merge_vars, extract_vars, validator_call, surfaced>>

NextSplit == SplitEnter \/ SplitIterate

(***************************************************************************)
(* The merger and the repair after it: the graphs of the chunks are merged *)
(* (extract_knowledge_graph, line 129) and main hands the merged graph to  *)
(* validate_and_repair_graph (main.py, line 132).                          *)
(***************************************************************************)
RepairMerged ==
    /\ m_result.kind = "return"
    /\ surfaced = NotCalled
    /\ surfaced' = validate_and_repair_graph(m_result.value)
    /\ UNCHANGED <<merge_vars, extract_vars, split_call, validator_call>>

NextMergeRepair == NextMerge \/ RepairMerged

SpecMergeRepair == InitMerge /\ [][NextMergeRepair]_vars

(***************************************************************************)
(* The merger applied incrementally: the graphs so far are merged, and the *)
(* merged graph is merged with the next one (the graphs of lines 100-129   *)
(* of extract_knowledge_graph, were the accumulator kept merged).          *)
(***************************************************************************)
\* the number of graphs merged incrementally
MaxChain == 3

NewChainGraph ==
    /\ m_result = NotCalled
    /\ Len(m_graphs) < MaxChain
    /\ \E v \in SchemaVersions :
           m_graphs' = Append(m_graphs, KnowledgeGraph(v, <<>>, <<>>))
    /\ UNCHANGED <<m_result, extract_vars, side_vars>>

\* The nodes and the relationships the graphs of a chain are made of: two
\* types, and one relation under either confidence.
ChainNodes == {n \in InputNodes : n.type # "DollarAmount"}

ChainRels == {r \in InputRels : r.relation = "OWNS"}

NewChainNode ==
    /\ m_result = NotCalled
    /\ Len(m_graphs) > 0
    /\ Len(AllNodes(m_graphs)) < MaxNodes
    /\ \E n \in ChainNodes :
           m_graphs' = [m_graphs EXCEPT ![Len(m_graphs)].nodes = Append(@, n)]
    /\ UNCHANGED <<m_result, extract_vars, side_vars>>

NewChainRel ==
    /\ m_result = NotCalled
    /\ Len(m_graphs) > 0
    /\ Len(AllRels(m_graphs)) < MaxRels
    /\ \E r \in ChainRels :
           m_graphs' = [m_graphs EXCEPT
                           ![Len(m_graphs)].relationships = Append(@, r)]
    /\ UNCHANGED <<m_result, extract_vars, side_vars>>

\* merge_graphs([merge_graphs(graphs[:-1]), graphs[-1]])
MergeIncremental(gs) ==
    LET so_far == merge_graphs(SubSeq(gs, 1, Len(gs) - 1))
    IN IF so_far.kind = "raise" THEN so_far
       ELSE merge_graphs(<<so_far.value, gs[Len(gs)]>>)

CallMergeIncremental ==
    /\ m_result = NotCalled
    /\ Len(m_graphs) >= 2
    /\ m_result' = MergeIncremental(m_graphs)
    /\ UNCHANGED <<m_graphs, extract_vars, side_vars>>

NextIncremental ==
    NewChainGraph \/ NewChainNode \/ NewChainRel \/ CallMergeIncremental

SpecIncremental == InitMerge /\ [][NextIncremental]_vars

\* A call that is in its loop runs on: the pass it can make, it makes.
\* This is weak fairness of SplitIterate, []<>~ENABLED <<SplitIterate>>_vars
\* \/ []<><<SplitIterate>>_vars, with the ENABLED written as the test it
\* comes to: a pass is possible exactly in the loop, and every pass
\* changes split_call (it appends a chunk or it returns).
SplitRunsOn ==
    []<>(split_call.pc # "loop") \/ []<><<SplitIterate>>_vars

SpecSplit == InitSplit /\ [][NextSplit]_vars /\ SplitRunsOn

(***************************************************************************)
(* Vocabulary of the properties.                                           *)
(***************************************************************************)
KeyOf(node) == <<node.type, node.name>>

Indices(seq) == 1..Len(seq)

KeysOf(g) == {KeyOf(g.nodes[j]) : j \in Indices(g.nodes)}

NodesWithKey(g, key) == {j \in Indices(g.nodes) : KeyOf(g.nodes[j]) = key}

NodesWithId(g, id) == {j \in Indices(g.nodes) : g.nodes[j].id = id}

\* The ids the nodes of (type, name) key bear in graph out.
IdsOfKey(out, key) == {out.nodes[j].id : j \in NodesWithKey(out, key)}

Last(S) == CHOOSE j \in S : \A h \in S : h <= j

\* The elements of seq in order, each kept at its first occurrence only.
RECURSIVE FirstSeen(_)
FirstSeen(seq) ==
    IF seq = <<>> THEN <<>>
    ELSE LET front == FirstSeen(SubSeq(seq, 1, Len(seq) - 1))
             last == seq[Len(seq)]
         IN IF \E h \in Indices(front) : front[h] = last
            THEN front ELSE Append(front, last)

NoRepeats(seq) == \A h, j \in Indices(seq) : seq[h] = seq[j] => h = j

Triple(rel) == <<rel.source, rel.target, rel.relation>>

MergedMany == Len(m_graphs) >= 2 /\ m_result.kind = "return"

\* What endpoint id of a relationship of input graph g may stand for in
\* out: itself when no node of g bears it, else the node of out with the
\* (type, name) of one of the nodes of g that bear it.
Resolutions(out, g, id) ==
    IF NodesWithId(g, id) = {} THEN {id}
    ELSE UNION {IdsOfKey(out, KeyOf(g.nodes[j])) : j \in NodesWithId(g, id)}

\* o is relationship rel of input graph g as it stands in out.
IsImage(out, g, rel, o) ==
    /\ o.relation = rel.relation
    /\ o.source \in Resolutions(out, g, rel.source)
    /\ o.target \in Resolutions(out, g, rel.target)

\* The copies j of key in g that the claim is about; every copy, or only
\* the copies that are the last node of g with their id.
EveryCopy(g, key) == NodesWithKey(g, key)

LastCopy(g, key) ==
    {j \in NodesWithKey(g, key) : j = Last(NodesWithId(g, g.nodes[j].id))}

\* In out, every relationship of g that names copy j of key has that
\* endpoint at the one node of out with key.
Rewritten(out, g, key, j) ==
    \A r \in Indices(g.relationships) :
        LET rel == g.relationships[r]
            id == g.nodes[j].id
        IN \E o \in Indices(out.relationships) :
               /\ IsImage(out, g, rel, out.relationships[o])
               /\ rel.source = id =>
                      out.relationships[o].source \in IdsOfKey(out, key)
               /\ rel.target = id =>
                      out.relationships[o].target \in IdsOfKey(out, key)

(***************************************************************************)
(* C1 as stated: two graphs that share a (type, name): the merge holds one *)
(* node of it, and every relationship that named either copy by its id has *)
(* that endpoint at the canonical id.                                      *)
(***************************************************************************)
C1_AsStated ==
    (Len(m_graphs) = 2 /\ m_result.kind = "return") =>
        \A key \in KeysOf(m_graphs[1]) \cap KeysOf(m_graphs[2]) :
            /\ Cardinality(NodesWithKey(m_result.value, key)) = 1
            /\ \A k \in 1..2 : \A j \in EveryCopy(m_graphs[k], key) :
                   Rewritten(m_result.value, m_graphs[k], key, j)

(***************************************************************************)
(* C1 amended: the same, where an id that several nodes of one graph bear  *)
(* stands for the last of them: the endpoint is rewritten when the copy is *)
(* the last node of its graph with that id.                                *)
(***************************************************************************)
C1_Dedup ==
    (Len(m_graphs) = 2 /\ m_result.kind = "return") =>
        \A key \in KeysOf(m_graphs[1]) \cap KeysOf(m_graphs[2]) :
            /\ Cardinality(NodesWithKey(m_result.value, key)) = 1
            /\ \A k \in 1..2 : \A j \in LastCopy(m_graphs[k], key) :
                   Rewritten(m_result.value, m_graphs[k], key, j)

\* Both graphs hold a copy of one (type, name) under different ids, and a
\* relationship of each graph names its copy.
C1_Witness ==
    /\ Len(m_graphs) = 2 /\ m_result.kind = "return"
    /\ \E key \in KeysOf(m_graphs[1]) \cap KeysOf(m_graphs[2]) :
           /\ \A k \in 1..2 : \E j \in LastCopy(m_graphs[k], key) :
                  \E r \in Indices(m_graphs[k].relationships) :
                      m_graphs[k].relationships[r].source = m_graphs[k].nodes[j].id
           /\ IdsOfKey(m_graphs[1], key) # IdsOfKey(m_graphs[2], key)
    /\ Len(m_result.value.relationships) = 2

(***************************************************************************)
(* C2 as stated: whatever the number of input graphs, one included, no two *)
(* relationships of the merged graph have the same (source, target,        *)
(* relation).                                                              *)
(***************************************************************************)
C2_AsStated ==
    (Len(m_graphs) >= 1 /\ m_result.kind = "return") =>
        NoRepeats([o \in Indices(m_result.value.relationships) |->
                       Triple(m_result.value.relationships[o])])

(***************************************************************************)
(* C2 amended: for two or more input graphs, no two relationships of the   *)
(* merged graph have the same (source, target, relation).                  *)
(***************************************************************************)
C2_NoDuplicateRels ==
    MergedMany =>
        NoRepeats([o \in Indices(m_result.value.relationships) |->
                       Triple(m_result.value.relationships[o])])

\* Two graphs were merged and a relationship of the second was dropped as a
\* repeat of one of the first.
C2_Witness ==
    /\ MergedMany
    /\ Len(m_graphs[1].relationships) = 1
    /\ Len(m_graphs[2].relationships) = 1
    /\ Len(m_result.value.relationships) = 1

(***************************************************************************)
(* C3: for two or more graphs, the (type, name) pairs of the merged node   *)
(* list are the distinct pairs of the inputs, each once, in the order of   *)
(* first appearance over the graphs left to right and their nodes top to   *)
(* bottom.                                                                 *)
(***************************************************************************)
C3_NodeOrder ==
    MergedMany =>
        [j \in Indices(m_result.value.nodes) |-> KeyOf(m_result.value.nodes[j])]
            = FirstSeen([j \in Indices(AllNodes(m_graphs)) |->
                             KeyOf(AllNodes(m_graphs)[j])])

\* A (type, name) met again in the second graph, between two new ones.
C3_Witness ==
    /\ MergedMany
    /\ Len(m_graphs[1].nodes) = 1
    /\ Len(m_graphs[2].nodes) = 2
    /\ KeyOf(m_graphs[2].nodes[1]) = KeyOf(m_graphs[1].nodes[1])
    /\ Len(m_result.value.nodes) = 2

(***************************************************************************)
(* C4: merging a single graph returns that graph, ids and duplicates       *)
(* included.                                                               *)
(***************************************************************************)
C4_SingleIdentity ==
    (Len(m_graphs) = 1 /\ m_result.kind # "none") =>
        m_result = [kind |-> "return", value |-> m_graphs[1]]

\* A single graph whose ids are not canonical, with a repeated node and a
\* repeated relationship, was merged.
C4_Witness ==
    /\ Len(m_graphs) = 1 /\ m_result.kind = "return"
    /\ Len(m_graphs[1].nodes) = 2
    /\ m_graphs[1].nodes[1] = m_graphs[1].nodes[2]
    /\ m_graphs[1].nodes[1].id = "c1"
    /\ Len(m_graphs[1].relationships) = 2
    /\ m_graphs[1].relationships[1] = m_graphs[1].relationships[2]

\* The prefix of the canonical ids of a node type.
PrefixOf(type) ==
    CASE type = "Company" -> "company"
      [] type = "RiskFactor" -> "risk"
      [] type = "DollarAmount" -> "amount"

\* The number of the nodes of nodes[1..j] that have the type of nodes[j].
RankInType(nodes, j) ==
    Cardinality({h \in 1..j : nodes[h].type = nodes[j].type})

(***************************************************************************)
(* C5: for two or more graphs, the k-th node of a type in the merged node  *)
(* list has the id <prefix>_<k>, k from 1 for each type on its own, and    *)
(* the ids of the merged graph are pairwise distinct.                      *)
(***************************************************************************)
C5_CanonicalIds ==
    MergedMany =>
        LET nodes == m_result.value.nodes IN
        /\ \A j \in Indices(nodes) :
               nodes[j].id = PrefixOf(nodes[j].type) \o "_"
                                 \o ToString(RankInType(nodes, j))
        /\ NoRepeats([j \in Indices(nodes) |-> nodes[j].id])

\* Two nodes of one type and one of another between them, all under the
\* same raw id.
C5_Witness ==
    /\ MergedMany
    /\ Len(m_result.value.nodes) = 3
    /\ m_result.value.nodes[1].type = "Company"
    /\ m_result.value.nodes[2].type = "DollarAmount"
    /\ m_result.value.nodes[3].type = "Company"
    /\ \A j \in Indices(AllNodes(m_graphs)) : AllNodes(m_graphs)[j].id = "company_1"

\* The canonical id of endpoint id of a relationship of input graph g: the
\* id, in out, of the (type, name) of the last node of g that bears id; id
\* itself when no node of g bears it.
Resolved(out, g, id) ==
    IF NodesWithId(g, id) = {} THEN id
    ELSE LET key == KeyOf(g.nodes[Last(NodesWithId(g, id))])
         IN out.nodes[Last(NodesWithKey(out, key))].id

(***************************************************************************)
(* C6: the merge of two or more graphs never fails, and every input        *)
(* relationship stands in the merged graph with each endpoint resolved     *)
(* within its own graph: an id that names a node of the graph becomes that *)
(* node's canonical id, an id that names none stays as it is.              *)
(***************************************************************************)
C6_EndpointResolution ==
    (Len(m_graphs) >= 2 /\ m_result.kind # "none") =>
        /\ m_result.kind = "return"
        /\ \A k \in Indices(m_graphs) :
               \A r \in Indices(m_graphs[k].relationships) :
                   LET rel == m_graphs[k].relationships[r] IN
                   \E o \in Indices(m_result.value.relationships) :
                       Triple(m_result.value.relationships[o]) =
                           Triple([rel EXCEPT
                               !.source = Resolved(m_result.value, m_graphs[k], @),
                               !.target = Resolved(m_result.value, m_graphs[k], @)])

\* A relationship of the second graph whose source names a node of the
\* first graph only: it passes through, while its target is resolved.
C6_Witness ==
    /\ MergedMany
    /\ Len(m_graphs[2].relationships) = 1
    /\ LET rel == m_graphs[2].relationships[1] IN
       /\ NodesWithId(m_graphs[2], rel.source) = {}
       /\ NodesWithId(m_graphs[1], rel.source) # {}
       /\ NodesWithId(m_graphs[2], rel.target) # {}
       /\ \E o \in Indices(m_result.value.relationships) :
              /\ m_result.value.relationships[o].source = rel.source
              /\ m_result.value.relationships[o].target # rel.target

(***************************************************************************)
(* C7: merging the empty list of graphs raises ValueError (the spec's      *)
(* InvalidArgument) and returns no graph.                                  *)
(***************************************************************************)
C7_EmptyRaises ==
    (Len(m_graphs) = 0 /\ m_result.kind # "none") =>
        /\ m_result.kind = "raise"
        /\ m_result.exc = "ValueError"

C7_Witness == Len(m_graphs) = 0 /\ m_result.kind = "raise"

IsReturn(r) == r.kind = "return"

\* The graphs of the chunks whose extraction succeeded, in chunk order.
SucceededGraphs ==
    LET ok == SelectSeq(extract_results, IsReturn)
    IN [n \in Indices(ok) |-> ok[n].value]

\* The call took the chunked arm, split the text and is through the loop.
LoopOver == pc = "done" /\ branch = "chunked" /\ i >= 1

\* The error of lines 122-126 for total chunks.
IsAllChunksFailed(r, total) ==
    /\ r.kind = "raise"
    /\ r.exc = "ValueError"
    /\ r.msg = "All " \o ToString(total) \o " chunks failed to extract. "
                   \o "Check LLM connection and prompt compatibility."

(***************************************************************************)
(* C8: on the chunked path, when the extraction of at least one chunk      *)
(* succeeded, the call returns the merge of the graphs of the chunks that  *)
(* succeeded, in chunk order, and does not raise.                          *)
(***************************************************************************)
C8_PartialFailure ==
    (LoopOver /\ SucceededGraphs # <<>>) =>
        /\ result.kind = "return"
        /\ result = merge_graphs(SucceededGraphs)

\* Three chunks: the first and the third succeeded with different graphs,
\* the second failed.
C8_Witness ==
    /\ LoopOver
    /\ Len(chunks) = 3
    /\ extract_results[1].kind = "return"
    /\ extract_results[2].kind = "raise"
    /\ extract_results[3].kind = "return"
    /\ extract_results[1] # extract_results[3]
    /\ Len(result.value.nodes) = 3

(***************************************************************************)
(* C9: once the text is split, the call raises the all-chunks-failed error *)
(* exactly when no extraction succeeded; it raises it only after an        *)
(* attempt on every chunk, and the error names the number of chunks.       *)
(***************************************************************************)
C9_AllChunksFailed ==
    (branch = "chunked" /\ i >= 1) =>
        /\ pc = "done" =>
               /\ IsAllChunksFailed(result, Len(chunks)) <=> SucceededGraphs = <<>>
               /\ result.kind = "raise" => IsAllChunksFailed(result, Len(chunks))
        /\ result.kind = "raise" => Len(extract_results) = Len(chunks)
        /\ pc # "done" => result = NotCalled

\* Three chunks, three failures.
C9_Witness ==
    /\ LoopOver
    /\ Len(chunks) = 3
    /\ \A n \in 1..3 : extract_results[n].kind = "raise"
    /\ IsAllChunksFailed(result, 3)

(***************************************************************************)
(* C10: on the chunked path the extractor is called once for each chunk,   *)
(* in chunk order; a call is made only when every earlier call has come    *)
(* back, with a graph or an error; and a failure does not keep the later   *)
(* chunks from their call.                                                 *)
(***************************************************************************)
C10_Sequential ==
    /\ [](LoopOver => /\ extract_calls = chunks
                      /\ Len(extract_results) = Len(chunks))
    /\ [][(branch' = "chunked" /\ extract_calls' # extract_calls) =>
              /\ Len(extract_results) = Len(extract_calls)
              /\ Len(extract_calls) < Len(chunks)
              /\ extract_calls' =
                     Append(extract_calls, chunks[Len(extract_calls) + 1])
              /\ extract_results' = extract_results]_vars

\* Three chunks, all three handed to the extractor though the first two
\* failed.
C10_Witness ==
    /\ LoopOver
    /\ Len(chunks) = 3
    /\ Len(extract_calls) = 3
    /\ extract_results[1].kind = "raise"
    /\ extract_results[2].kind = "raise"
    /\ extract_results[3].kind = "return"

\* The indices of the chunks whose extraction succeeded, in chunk order.
SucceededIndices ==
    SelectSeq([n \in Indices(extract_results) |-> n],
              LAMBDA n : extract_results[n].kind = "return")

\* One call for each chunk that succeeded so far, in chunk order, each
\* with the merge of the graphs of the chunks that succeeded up to it, the
\* index of the chunk and the number of chunks.
ExpectedCallbacks ==
    [n \in Indices(SucceededIndices) |->
        <<merge_graphs(SubSeq(SucceededGraphs, 1, n)).value,
          SucceededIndices[n], Len(chunks)>>]

(***************************************************************************)
(* C11: on the chunked path with a callback, the calls of the callback are *)
(* at every moment one for each chunk whose extraction has succeeded, none *)
(* for a chunk that failed, in increasing chunk order, each with the merge *)
(* of the graphs accumulated up to that chunk, its index and the number of *)
(* chunks.                                                                 *)
(***************************************************************************)
C11_CallbackPerSuccess ==
    (branch = "chunked" /\ on_chunk_complete # "None") =>
        callback_calls = ExpectedCallbacks

\* Three chunks: the callback was called for the first and the third, the
\* second having failed, the second time with the merge of two graphs.
C11_Witness ==
    /\ LoopOver
    /\ on_chunk_complete # "None"
    /\ Len(chunks) = 3
    /\ extract_results[2].kind = "raise"
    /\ Len(callback_calls) = 2
    /\ callback_calls[1][2] = 1
    /\ callback_calls[2][2] = 3
    /\ callback_calls[2][1] # extract_results[3].value
    /\ Len(callback_calls[2][1].nodes) = 3

\* The outcome of the call as the text, the configuration and the outcomes
\* of the extractor calls alone give it; no callback enters it.
OutcomeWithoutCallback ==
    IF ~Loaded THEN Config(config)
    ELSE IF ~Chunked THEN extract_results[1]
    ELSE IF config.chunk_overlap_tokens >= config.chunk_size_tokens
    THEN Raised("ValueError",
                "CHUNK_OVERLAP_TOKENS must be less than CHUNK_SIZE_TOKENS")
    ELSE IF SucceededGraphs = <<>>
    THEN AllChunksFailed(Len(split_text(text, config.chunk_size_tokens,
                                        config.chunk_overlap_tokens).value))
    ELSE merge_graphs(SucceededGraphs)

\* The chunks whose callback raised: noted as failed though their extraction
\* succeeded.
CallbackFailures ==
    {n \in Indices(extract_results) :
        /\ extract_results[n].kind = "return"
        /\ \E h \in Indices(failed_chunks) : failed_chunks[h] = n}

(***************************************************************************)
(* C12: the outcome of the call, the graph returned or the error raised,   *)
(* is a function of the text, the configuration and the outcomes of the    *)
(* extractor calls: it is the same with no callback, with a callback that  *)
(* returns and with a callback that raises.                                *)
(***************************************************************************)
C12_CallbackNoEffect == pc = "done" => result = OutcomeWithoutCallback

\* Two chunks succeeded; the callback raised on the first and returned on
\* the second, and the call returned the merge of both graphs.
C12_Witness ==
    /\ LoopOver
    /\ Len(chunks) = 2
    /\ CallbackFailures = {1}
    /\ Len(callback_calls) = 2
    /\ extract_results[1] # extract_results[2]
    /\ result = merge_graphs(<<extract_results[1].value,
                               extract_results[2].value>>)

(***************************************************************************)
(* C13: with a configuration loaded, if chunking is disabled or the text   *)
(* is estimated at no more than chunk_size_tokens, the extractor is called *)
(* once, with the text as it is, and the outcome of that call, its graph   *)
(* untouched or its error, is the outcome of the whole call; nothing is    *)
(* split, merged or handed to the callback.                                *)
(***************************************************************************)
C13_SingleCall ==
    (Loaded /\ pc # "start"
        /\ (~config.chunk_enabled
              \/ estimate_tokens(text) <= config.chunk_size_tokens)) =>
        /\ branch = "single"
        /\ extract_calls = <<text>>
        /\ chunks = <<>> /\ graphs = <<>> /\ callback_calls = <<>>
        /\ pc = "done" => /\ Len(extract_results) = 1
                          /\ result = extract_results[1]
        /\ pc # "done" => extract_results = <<>> /\ result = NotCalled

\* Chunking is enabled and the text, blanks at its end, is just
\* chunk_size_tokens long; the graph returned has a repeated id and a
\* relationship repeated.
C13_Witness ==
    /\ pc = "done"
    /\ config.chunk_enabled
    /\ estimate_tokens(text) = config.chunk_size_tokens
    /\ strip(text) # text
    /\ extract_calls = <<text>>
    /\ result.kind = "return"
    /\ ~NoRepeats([n \in Indices(result.value.nodes) |->
                       result.value.nodes[n].id])
    /\ ~NoRepeats(result.value.relationships)

\* The spec's InvalidArgument: a ValueError, pydantic's ValidationError
\* being one.
IsInvalidArgument(r) ==
    r.kind = "raise" /\ r.exc \in {"ValueError", "ValidationError"}

BadChunkParameters ==
    \/ config.chunk_overlap_tokens >= config.chunk_size_tokens
    \/ config.chunk_overlap_tokens < 0
    \/ config.chunk_size_tokens <= 0

(***************************************************************************)
(* C14: with chunking enabled and a text estimated above chunk_size_tokens,*)
(* bad chunking parameters (overlap >= size, overlap < 0, size <= 0) make  *)
(* the call raise a ValueError in its first step: the text is never split, *)
(* the extractor and the callback never called.                            *)
(***************************************************************************)
C14_FailFast ==
    (config.chunk_enabled
        /\ estimate_tokens(text) > config.chunk_size_tokens
        /\ BadChunkParameters) =>
        /\ pc \in {"start", "done"}
        /\ pc = "done" => IsInvalidArgument(result)
        /\ extract_calls = <<>> /\ callback_calls = <<>> /\ chunks = <<>>

\* A configuration that loads, with the overlap equal to the chunk size,
\* and a callback: the test of line 69 raised.
C14_Witness ==
    /\ pc = "done"
    /\ Loaded /\ Chunked
    /\ config.chunk_overlap_tokens = config.chunk_size_tokens
    /\ on_chunk_complete # "None"
    /\ result = Raised("ValueError",
                       "CHUNK_OVERLAP_TOKENS must be less than CHUNK_SIZE_TOKENS")
    /\ extract_calls = <<>>

\* The node ids of a graph, in node order.
IdsOf(g) == [n \in Indices(g.nodes) |-> g.nodes[n].id]

(***************************************************************************)
(* C15 as stated: the graph main surfaces, the result of the call passed   *)
(* through validate_and_repair_graph, has pairwise distinct node ids,      *)
(* whatever graphs the extractor returns, on the single-call path and on   *)
(* the chunked path.  The code does not uphold it: a repeated id in the    *)
(* graph of a single call, or of the only chunk that succeeded, comes      *)
(* through unchanged.                                                      *)
(***************************************************************************)
C15_AsStated == surfaced.kind = "return" => NoRepeats(IdsOf(surfaced.value))

\* The types of the nodes of g that bear id.
TypesOf(g, id) == {g.nodes[n].type : n \in NodesWithId(g, id)}

\* Every node of g that bears an endpoint of rel has the type the relation
\* of rel asks of that endpoint.
TypeConstraint(g, rel) ==
    /\ rel.relation = "HAS_RISK" => TypesOf(g, rel.target) \subseteq {"RiskFactor"}
    /\ rel.relation = "REPORTS_AMOUNT" =>
           TypesOf(g, rel.target) \subseteq {"DollarAmount"}
    /\ rel.relation = "OWNS" =>
           /\ TypesOf(g, rel.source) \subseteq {"Company"}
           /\ TypesOf(g, rel.target) \subseteq {"Company"}

(***************************************************************************)
(* C16 as stated: in the graph validate_and_repair_graph returns, for any  *)
(* input graph with a node, every relationship has a source and a target   *)
(* that are ids of nodes of that graph, and the type constraints hold of   *)
(* the nodes those ids name: a HAS_RISK target is a RiskFactor, a          *)
(* REPORTS_AMOUNT target a DollarAmount, both ends of an OWNS Company.     *)
(* The code does not uphold it when an id names two nodes of different     *)
(* types: it looks at the last of them only.                               *)
(***************************************************************************)
C16_AsStated ==
    validator_call.repair.kind = "return" =>
        LET out == validator_call.repair.value IN
        \A r \in Indices(out.relationships) :
            /\ NodesWithId(out, out.relationships[r].source) # {}
            /\ NodesWithId(out, out.relationships[r].target) # {}
            /\ TypeConstraint(out, out.relationships[r])

\* The type the id -> node lookup of the repair gives for an id that names
\* a node of g: the type of the last node of g that bears it.
LookupType(g, id) == g.nodes[Last(NodesWithId(g, id))].type

\* The relationships the claim has the repair discard.
Discarded(g, rel) ==
    \/ NodesWithId(g, rel.source) = {}
    \/ NodesWithId(g, rel.target) = {}
    \/ /\ NodesWithId(g, rel.source) # {} /\ NodesWithId(g, rel.target) # {}
       /\ \/ rel.relation = "HAS_RISK"
                /\ LookupType(g, rel.target) # "RiskFactor"
          \/ rel.relation = "REPORTS_AMOUNT"
                /\ LookupType(g, rel.target) # "DollarAmount"
          \/ rel.relation = "OWNS"
                /\ (LookupType(g, rel.source) # "Company"
                      \/ LookupType(g, rel.target) # "Company")

(***************************************************************************)
(* C17: validate_and_repair_graph raises its empty-graph ValueError        *)
(* exactly when the node list is empty; otherwise it returns a graph with  *)
(* the schema_version and the node list of its argument and, in their      *)
(* order, the relationships of its argument that are not discarded.  A     *)
(* relationship is discarded if and only if its source or its target is    *)
(* the id of no node, or it is a HAS_RISK whose target type is not         *)
(* RiskFactor, a REPORTS_AMOUNT whose target type is not DollarAmount, or  *)
(* an OWNS with an end whose type is not Company; the type of an end is    *)
(* the one the id -> node lookup gives.                                    *)
(***************************************************************************)
C17_Repair ==
    validator_call.repair # NotCalled =>
        LET g == validator_call.graph IN
        IF g.nodes = <<>>
        THEN validator_call.repair =
                 Raised("ValueError",
                        "KnowledgeGraph must contain at least one node")
        ELSE validator_call.repair =
                 Returned(KnowledgeGraph(
                     g.schema_version, g.nodes,
                     SelectSeq(g.relationships,
                               LAMBDA rel : ~Discarded(g, rel))))

\* A HAS_RISK from a Company to a Company, then one to a RiskFactor: the
\* repair returned the second alone.
C17_Witness ==
    /\ validator_call.repair.kind = "return"
    /\ Len(validator_call.graph.relationships) = 2
    /\ NoRepeats(IdsOf(validator_call.graph))
    /\ \A r \in 1..2 :
           /\ validator_call.graph.relationships[r].relation = "HAS_RISK"
           /\ ~Discarded(validator_call.graph,
                         validator_call.graph.relationships[r]) <=> r = 2
    /\ validator_call.repair.value.relationships =
           <<validator_call.graph.relationships[2]>>
    /\ validator_call.graph.schema_version = "1.1.0"

\* The claim's conditions of a graph that passes strict validation.
StrictlyValid(g) ==
    /\ g.nodes # <<>>
    /\ NoRepeats(IdsOf(g))
    /\ \A r \in Indices(g.relationships) :
           /\ NodesWithId(g, g.relationships[r].source) # {}
           /\ NodesWithId(g, g.relationships[r].target) # {}

(***************************************************************************)
(* C18: validate_knowledge_graph returns if and only if the node list is   *)
(* not empty, the node ids are pairwise distinct and every source and      *)
(* target is the id of a node; otherwise it raises a ValueError; and the   *)
(* call leaves the graph as it was.                                        *)
(***************************************************************************)
C18_StrictValidate ==
    /\ [](validator_call.validate # NotCalled =>
             IF StrictlyValid(validator_call.graph)
             THEN validator_call.validate = Returned("None")
             ELSE /\ validator_call.validate.kind = "raise"
                  /\ validator_call.validate.exc = "ValueError")
    /\ [][validator_call'.validate # validator_call.validate =>
              validator_call'.graph = validator_call.graph]_vars

\* Three nodes, the first and the third under one id, and relationships
\* that name nodes only: the validation raised on the repeated id.
C18_Witness ==
    /\ validator_call.validate.kind = "raise"
    /\ Len(validator_call.graph.nodes) = 3
    /\ validator_call.graph.nodes[1].id = validator_call.graph.nodes[3].id
    /\ validator_call.graph.nodes[1].id # validator_call.graph.nodes[2].id
    /\ Len(validator_call.graph.relationships) = 2
    /\ validator_call.validate.msg[2] = <<validator_call.graph.nodes[3].id>>

ValidSplitArguments ==
    /\ split_call.chunk_size > 0
    /\ 0 <= split_call.overlap
    /\ split_call.overlap < split_call.chunk_size

(***************************************************************************)
(* C19: for every text and valid arguments (chunk_size > 0, 0 <= overlap   *)
(* < chunk_size) split_text comes to its end, with the chunks it has       *)
(* gathered; from one pass of its loop to the next the position strictly   *)
(* increases and stays short of the end of the text.                       *)
(***************************************************************************)
C19_Terminates ==
    /\ (split_call.pc # "idle" /\ ValidSplitArguments)
           ~> (split_call.pc = "done" /\ split_call.result.kind = "return")
    /\ [][(split_call.pc = "loop" /\ split_call'.pc = "loop") =>
              /\ split_call'.current_pos > split_call.current_pos
              /\ split_call'.current_pos < Len(split_call.text)]_vars
    /\ [](split_call.pc = "done" =>
             split_call.result = split_text(split_call.text,
                                            split_call.chunk_size,
                                            split_call.overlap))

\* Three passes of the loop, the overlap not zero, the position now past
\* the middle of the text.
C19_Witness ==
    /\ split_call.pc = "done"
    /\ split_call.overlap > 0
    /\ Len(split_call.chunks) = 3
    /\ split_call.current_pos > 0
    /\ split_call.result = Returned(split_call.chunks)


(***************************************************************************)
(* C20: for every text, the empty and the blank ones among them,           *)
(* split_text called with chunk_size <= 0, or overlap < 0, or overlap >=   *)
(* chunk_size raises ValueError before it does anything else: it is at its *)
(* end without a pass of its loop, and no chunk is returned.               *)
(***************************************************************************)
C20_ArgumentsFirst ==
    (split_call.pc # "idle" /\ ~ValidSplitArguments) =>
        /\ split_call.pc = "done"
        /\ split_call.result.kind = "raise"
        /\ split_call.result.exc = "ValueError"
        /\ split_call.chunks = <<>>
        /\ split_call.current_pos = 0

\* A text of blanks only, not empty, with the overlap equal to the chunk
\* size: the call raised.
C20_Witness ==
    /\ split_call.pc = "done"
    /\ split_call.text # <<>>
    /\ strip(split_call.text) = <<>>
    /\ split_call.chunk_size > 0
    /\ split_call.overlap = split_call.chunk_size
    /\ split_call.result =
           Raised("ValueError", "overlap must be less than chunk_size")

\* The call is at its end, on valid arguments and a text of at most
\* chunk_size tokens.
FitsInOneChunk ==
    /\ split_call.pc = "done"
    /\ ValidSplitArguments
    /\ estimate_tokens(split_call.text) <= split_call.chunk_size

\* C21 as it is stated: every text that fits, the empty and the blank ones
\* too, comes back as [text].
C21_AsStated ==
    FitsInOneChunk => split_call.result = Returned(<<split_call.text>>)

(***************************************************************************)
(* C21: for valid arguments and estimate_tokens(text) <= chunk_size,       *)
(* split_text returns [text], the text as it was given, unless the text is *)
(* empty or blank: then it returns [].                                     *)
(***************************************************************************)
C21_FitsUnmodified ==
    FitsInOneChunk =>
        split_call.result = IF strip(split_call.text) = <<>>
                            THEN Returned(<<>>)
                            ELSE Returned(<<split_call.text>>)

\* A text that fits and ends in a blank came back with its blank.
C21_Witness ==
    /\ FitsInOneChunk
    /\ strip(split_call.text) # <<>>
    /\ strip(split_call.text) # split_call.text
    /\ split_call.result = Returned(<<split_call.text>>)
    /\ split_call.chunks = <<>>

\* The call returned, on valid arguments.
SplitReturned ==
    /\ split_call.pc = "done"
    /\ ValidSplitArguments
    /\ split_call.result.kind = "return"

\* The call went through its loop: the text is not blank and does not fit.
MultiChunkPath ==
    /\ strip(split_call.text) # <<>>
    /\ estimate_tokens(split_call.text) > split_call.chunk_size

C23_AsStated ==
    SplitReturned =>
        \A k \in 1..Len(split_call.result.value) :
            split_call.result.value[k] # <<>>

\* The relationships of the input graphs in the order of the walk, graphs
\* in order and the relationships of each in order, every endpoint at its
\* canonical id in out.
ResolvedRels(out, gs) ==
    Flat([k \in Indices(gs) |->
             [r \in Indices(gs[k].relationships) |->
                 [gs[k].relationships[r] EXCEPT
                     !.source = Resolved(out, gs[k], @),
                     !.target = Resolved(out, gs[k], @)]]], 1)

\* The relationships of rels in order, each (source, target, relation)
\* kept where it is first met.
RECURSIVE FirstOfTriple(_)
FirstOfTriple(rels) ==
    IF rels = <<>> THEN <<>>
    ELSE LET front == FirstOfTriple(SubSeq(rels, 1, Len(rels) - 1))
             last == rels[Len(rels)]
         IN IF \E h \in Indices(front) : Triple(front[h]) = Triple(last)
            THEN front ELSE Append(front, last)

(***************************************************************************)
(* C24: for two or more graphs, the merged relationship list is the        *)
(* distinct (resolved source, resolved target, relation) triples in the    *)
(* order they are first met, graphs in order and the relationships of each *)
(* in order, each with the relation and the confidence of the first input  *)
(* relationship that gave its triple.                                      *)
(***************************************************************************)
C24_RelOrder ==
    MergedMany =>
        m_result.value.relationships =
            FirstOfTriple(ResolvedRels(m_result.value, m_graphs))

\* A relationship of each of two graphs, under different raw ids and with
\* different confidences, came to one triple: the merge holds the first.
C24_Witness ==
    /\ MergedMany
    /\ Len(m_graphs[1].relationships) = 1
    /\ Len(m_graphs[2].relationships) = 1
    /\ m_graphs[1].relationships[1].source # m_graphs[2].relationships[1].source
    /\ m_graphs[1].relationships[1].confidence = <<1>>
    /\ m_graphs[2].relationships[1].confidence = <<>>
    /\ Len(m_result.value.relationships) = 1
    /\ m_result.value.relationships[1].confidence = <<1>>
    /\ m_result.value.relationships[1].source # m_graphs[1].relationships[1].source

\* Two or more graphs were merged and the merged graph was repaired.
RepairedMerge ==
    /\ MergedMany
    /\ surfaced.kind = "return"

\* Relationship rel of graph g names nodes of g at both ends.
NamesOwnNodes(g, rel) ==
    /\ NodesWithId(g, rel.source) # {}
    /\ NodesWithId(g, rel.target) # {}

(***************************************************************************)
(* C25: for two or more chunk graphs, every relationship of the repaired   *)
(* merge is the image of an input relationship whose source and target     *)
(* both name nodes of its own graph: a relationship with an end that names *)
(* no node of its graph does not survive.                                  *)
(***************************************************************************)
C25_AsStated ==
    RepairedMerge =>
        \A o \in Indices(surfaced.value.relationships) :
            \E k \in Indices(m_graphs) :
                \E r \in Indices(m_graphs[k].relationships) :
                    /\ NamesOwnNodes(m_graphs[k], m_graphs[k].relationships[r])
                    /\ IsImage(m_result.value, m_graphs[k],
                               m_graphs[k].relationships[r],
                               surfaced.value.relationships[o])

\* Where in the text chunk k of the call begins, counted from 0: it was
\* cut from the position starts[k] on and stripped of the whitespace it
\* began with.
SpanStart(k) ==
    LET rest == Slice(split_call.text, split_call.starts[k],
                      Len(split_call.text))
    IN split_call.starts[k]
           + (IF NonSpaces(rest) = {} THEN Len(rest)
              ELSE (CHOOSE p \in NonSpaces(rest) :
                       \A q \in NonSpaces(rest) : p <= q) - 1)

\* The positions of the text, counted from 1, that chunk k stands for.
Span(k) == {SpanStart(k) + d : d \in 1..Len(split_call.chunks[k])}

(***************************************************************************)
(* C26: on the multi-chunk path no part of the text is skipped: every      *)
(* position of the text that holds a non-whitespace character lies in the  *)
(* span of at least one chunk returned.                                    *)
(***************************************************************************)
C26_AsStated ==
    (SplitReturned /\ MultiChunkPath) =>
        \A p \in NonSpaces(split_call.text) :
            \E k \in Indices(split_call.chunks) : p \in Span(k)

\* The three properties of the claim: the node ids of g are pairwise
\* distinct, every relationship names nodes of g at both ends, and every
\* relationship satisfies the type constraint of its relation.
WellFormed(g) ==
    /\ NoRepeats(IdsOf(g))
    /\ \A r \in Indices(g.relationships) :
           /\ NamesOwnNodes(g, g.relationships[r])
           /\ TypeConstraint(g, g.relationships[r])

(***************************************************************************)
(* C27: if each of two or more input graphs has pairwise distinct node     *)
(* ids, no relationship with a missing endpoint and only relationships     *)
(* that satisfy the type constraints, the merged graph has the same three  *)
(* properties, and the repair of the merged graph keeps every relationship *)
(* of it: it returns the merged graph as it is.                            *)
(***************************************************************************)
C27_WellFormedPreserved ==
    (MergedMany /\ \A k \in Indices(m_graphs) : WellFormed(m_graphs[k])) =>
        /\ WellFormed(m_result.value)
        /\ surfaced # NotCalled =>
               \A o \in Indices(m_result.value.relationships) :
                   surfaced = Returned(m_result.value)

\* Two well-formed graphs that share a node, each with a relationship of
\* its own kind: the repair returned the merged graph, both relationships
\* in it, the ends of the second rewritten.
C27_Witness ==
    /\ RepairedMerge
    /\ \A k \in Indices(m_graphs) : WellFormed(m_graphs[k])
    /\ Len(m_graphs[1].relationships) = 1
    /\ Len(m_graphs[2].relationships) = 1
    /\ m_graphs[1].relationships[1].relation = "HAS_RISK"
    /\ m_graphs[2].relationships[1].relation = "OWNS"
    /\ KeysOf(m_graphs[1]) \cap KeysOf(m_graphs[2]) # {}
    /\ Len(surfaced.value.relationships) = 2
    /\ surfaced.value.relationships[2].source
           # m_graphs[2].relationships[1].source
    /\ surfaced = Returned(m_result.value)

(***************************************************************************)
(* C28: merging incrementally is merging at the end: for two or more       *)
(* graphs, the merge of the merge of all but the last with the last is the *)
(* merge of all of them, in schema_version, in the node list and in the    *)
(* relationship list, order and confidence included.                       *)
(***************************************************************************)
C28_Incremental ==
    (Len(m_graphs) >= 2 /\ m_result # NotCalled) =>
        m_result = merge_graphs(m_graphs)

\* Three graphs of one node each, the first and the third the same (type,
\* name); a relationship of the second with a target that names no node of
\* it, and a relationship of the third: two nodes and both relationships
\* came out.
C28_Witness ==
    /\ Len(m_graphs) = 3
    /\ m_result.kind = "return"
    /\ \A k \in 1..3 : Len(m_graphs[k].nodes) = 1
    /\ KeyOf(m_graphs[1].nodes[1]) = KeyOf(m_graphs[3].nodes[1])
    /\ KeyOf(m_graphs[1].nodes[1]) # KeyOf(m_graphs[2].nodes[1])
    /\ Len(m_graphs[2].relationships) = 1
    /\ NodesWithId(m_graphs[2], m_graphs[2].relationships[1].target) = {}
    /\ Len(m_graphs[3].relationships) = 1
    /\ Len(m_result.value.nodes) = 2
    /\ Len(m_result.value.relationships) = 2
    /\ m_result = merge_graphs(m_graphs)

(***************************************************************************)
(* C29: on the chunked path with a callback and at least one chunk whose   *)
(* extraction succeeded, the callback has been called, and the graph of    *)
(* its last call is the graph the call returns.                            *)
(***************************************************************************)
C29_LastCallbackIsResult ==
    (LoopOver /\ on_chunk_complete # "None" /\ SucceededGraphs # <<>>) =>
        /\ callback_calls # <<>>
        /\ result = Returned(callback_calls[Len(callback_calls)][1])

\* Two chunks succeeded and the last one failed: the graph of the second
\* call of the callback, a merge of two graphs, was returned.
C29_Witness ==
    /\ LoopOver
    /\ on_chunk_complete # "None"
    /\ Len(chunks) = 3
    /\ extract_results[1].kind = "return"
    /\ extract_results[2].kind = "return"
    /\ extract_results[3].kind = "raise"
    /\ Len(callback_calls) = 2
    /\ callback_calls[2][1] # extract_results[2].value
    /\ callback_calls[2][1] # callback_calls[1][1]
    /\ result = Returned(callback_calls[2][1])

\* The indices of the chunks whose extraction failed, in chunk order.
ExtractorFailures ==
    SelectSeq([n \in Indices(extract_results) |-> n],
              LAMBDA n : extract_results[n].kind = "raise")

(***************************************************************************)
(* C30: when the loop over the chunks has ended, every chunk is accounted  *)
(* for once: the indices in failed_chunks are those of the chunks whose    *)
(* extractor call failed, none of them is the index of a chunk whose graph *)
(* is in graphs, and the number of graphs and the number of failed indices *)
(* add up to the number of chunks, with a callback and without one.        *)
(***************************************************************************)
C30_AsStated ==
    LoopOver =>
        /\ failed_chunks = ExtractorFailures
        /\ \A h \in Indices(failed_chunks) :
               \A n \in Indices(SucceededIndices) :
                   failed_chunks[h] # SucceededIndices[n]
        /\ graphs = SucceededGraphs
        /\ Len(graphs) + Len(failed_chunks) = Len(chunks)

====
